---- MODULE Spec2Model ----
(***************************************************************************)
(* A model of the CHIP-8 emulator of src/src/chip8.c: the machine struct   *)
(* chip8_t, the loader init_chip8, the input handler handle_input, the     *)
(* interpreter step emulate_instruction, update_timers and the driver loop *)
(* of main.                                                                *)
(***************************************************************************)
EXTENDS Integers, Sequences, FiniteSets, TLC

VARIABLES
    chip8,            \* the chip8_t struct of main
    extension,        \* config.extension
    romFile,          \* the file argv[1] names: [exists, bytes]
    key,              \* static uint8_t key of FX0A
    any_key_pressed,  \* static bool any_key_pressed of FX0A
    audio,            \* TRUE when the audio device is unpaused
    pc,               \* position of main
    i,                \* loop counter of the instruction batch of main
    initResult,       \* what the latest call of init_chip8 returned
    access,           \* RAM indices the latest emulate_instruction used
    undefined,        \* instructions run since one first indexed outside an array
    waitSeen,         \* history: keys the executions of FX0A of the current
                      \* wait found pressed (a wait ends when FX0A completes
                      \* or the machine is loaded again)
    screen,           \* the image in the window: which pixels the latest
                      \* update_screen (or clear_screen) painted as lit
    waitTaps          \* history: per key, what the events handled while PC
                      \* stood at FX0A did during the current wait: "none",
                      \* "down" (pressed) or "tapped" (pressed, then released)

vars == <<chip8, extension, romFile, key, any_key_pressed, audio, pc, i,
          initResult, access, undefined, waitSeen, screen, waitTaps>>

-----------------------------------------------------------------------------
(* Sizes and constants of the program *)

RamSize == 4096
DisplaySize == 64 * 32
StackSize == 12
entryPoint == 512
windowWidth == 64
windowHeight == 32
insts_per_second == 500
NoKey == 255
\* a null stackPtr, as an offset from &stack[0]: far outside the array
NULL == 0 - 65536

\* bounds of the model
MaxEvents == 2      \* SDL events pending at one call of handle_input
MaxUndefined == 2   \* instructions followed once behaviour is undefined
MaxChain == 3       \* longest call chain among the call/return programs

Byte == 0 .. 255
\* what a read outside an array may yield
OobBytes == {0, 255}
\* what rand() % 256 may yield
RandBytes == {0, 170, 255}


-----------------------------------------------------------------------------
(* Bitwise operators of C on non-negative integers *)

RECURSIVE BitAnd(_, _)
BitAnd(a, b) ==
    IF a = 0 \/ b = 0 THEN 0
    ELSE (a % 2) * (b % 2) + 2 * BitAnd(a \div 2, b \div 2)

BitOr(a, b) == a + b - BitAnd(a, b)

BitXor(a, b) == a + b - 2 * BitAnd(a, b)

-----------------------------------------------------------------------------
(* init_chip8 *)

font ==
    << 240, 144, 144, 144, 240,
        32,  96,  32,  32, 112,
       240,  16, 240, 128, 240,
       240,  16, 240,  16, 240,
       144, 144, 240,  16,  16,
       240, 128, 240,  16, 240,
       240, 128, 240, 144, 240,
       240,  16,  32,  64,  64,
       240, 144, 240, 144, 240,
       240, 144, 240,  16, 240,
       240, 144, 240, 144, 144,
       224, 144, 224, 144, 224,
       240, 128, 128, 128, 240,
       224, 144, 144, 144, 224,
       240, 128, 240, 128, 240,
       240, 128, 240, 128, 128 >>

\* uint8_t ram[4096] is the sequence of its bytes: ram[a] in C is ram[a + 1]
\* here.  RamSize zero bytes:
ZeroRam == [a \in 1 .. RamSize |-> 0] \o << >>

\* memset(chip8, 0, sizeof(chip8_t)); QUIT is the enumerator 0
ZeroChip8 ==
    [ state      |-> "QUIT",
      ram        |-> ZeroRam,
      display    |-> [p \in 0 .. DisplaySize - 1 |-> FALSE],
      stack      |-> [s \in 0 .. StackSize - 1 |-> 0],
      stackPtr   |-> NULL,
      V          |-> [r \in 0 .. 15 |-> 0],
      I          |-> 0,
      PC         |-> 0,
      delayTimer |-> 0,
      soundTimer |-> 0,
      keypad     |-> [k \in 0 .. 15 |-> FALSE],
      inst       |-> 0,
      romName    |-> "NULL",
      draw       |-> FALSE ]

\* mutant: the font copied to ram[80 ..]
FontRam_At80 ==
    SubSeq(ZeroRam, 1, 80) \o font \o SubSeq(ZeroRam, 80 + Len(font) + 1, RamSize)

\* memcpy(&chip8->ram[0], &font[0], sizeof(font))
FontRam == font \o SubSeq(ZeroRam, Len(font) + 1, RamSize)

\* RAM after the fread of the image bytes to &ram[entryPoint]
LoadedRam(bytes) ==
    SubSeq(FontRam, 1, entryPoint) \o bytes
        \o SubSeq(FontRam, entryPoint + Len(bytes) + 1, RamSize)

\* fopen(romName, "rb"): fails for a null name or a file that is not there
FopenOk(romName, file) == romName # "NULL" /\ file.exists

\* fread(&ram[entryPoint], romSize, 1, rom): the number of items read,
\* which is 0 when the item size is 0
FreadItems(romSize) == IF romSize = 0 THEN 0 ELSE 1

\* the result of init_chip8(chip8, config, romName): [chip8, ok]
init_chip8(romName, file) ==
    LET cleared == [ZeroChip8 EXCEPT !.ram = FontRam]
        romSize == Len(file.bytes)
        maxSize == RamSize - entryPoint
    IN  IF ~FopenOk(romName, file)
        THEN [chip8 |-> cleared, ok |-> FALSE]
        ELSE IF romSize > maxSize
        THEN [chip8 |-> cleared, ok |-> FALSE]
        ELSE IF FreadItems(romSize) # 1
        THEN [chip8 |-> cleared, ok |-> FALSE]
        ELSE [chip8 |->
                 [cleared EXCEPT
                    !.ram = LoadedRam(file.bytes),
                    !.state = "RUNNING",
                    !.PC = entryPoint,
                    !.romName = romName,
                    !.stackPtr = 0],
              ok |-> TRUE]

-----------------------------------------------------------------------------
(* handle_input *)

\* the SDL key of each keypad index 0 .. 15 (the two switches of handle_input)
KeySyms == << "x", "1", "2", "3", "q", "w", "e", "a",
              "s", "d", "z", "c", "4", "r", "f", "v" >>

IsKeypadSym(sym) == \E k \in 1 .. Len(KeySyms) : KeySyms[k] = sym

KeyIndex(sym) == (CHOOSE k \in 1 .. Len(KeySyms) : KeySyms[k] = sym) - 1

\* keys with a case in the SDL_KEYDOWN switch that touch only the
\* presentation settings (color_lerp_rate, volume)
ConfigSyms == {"j", "k", "o", "p"}

\* the keypad keys the environment presses and releases: keys 0 and 1
EnvSyms == {"x", "1"}

\* the events the environment may queue
Events ==
    {[type |-> "QUIT", sym |-> ""], [type |-> "OTHER", sym |-> ""]}
    \cup [type : {"KEYDOWN"}, sym : {"ESCAPE", "SPACE", "EQUALS", "j", "F1"}]
    \cup [type : {"KEYDOWN", "KEYUP"}, sym : EnvSyms]

EventQueues == UNION {[1 .. n -> Events] : n \in 0 .. MaxEvents}

\* the body of the SDL_PollEvent loop on the queued events evs, from the
\* machine h.chip8: [chip8, ok, inits, nullOpen], ok being what the latest
\* init_chip8 returned, inits the number of calls of init_chip8 and nullOpen
\* whether fopen was handed a null name
RECURSIVE handle_input(_, _, _)
handle_input(h, evs, file) ==
    IF evs = << >> THEN h
    ELSE
      LET e == Head(evs)
          c == h.chip8
          rest == Tail(evs)
      IN  CASE e.type = "QUIT" ->
                 [h EXCEPT !.chip8.state = "QUIT"]
            [] e.type = "KEYUP" ->
                 IF IsKeypadSym(e.sym)
                 THEN handle_input(
                        [h EXCEPT !.chip8.keypad[KeyIndex(e.sym)] = FALSE],
                        rest, file)
                 ELSE handle_input(h, rest, file)
            [] e.type = "KEYDOWN" ->
                 CASE e.sym = "ESCAPE" ->
                        handle_input([h EXCEPT !.chip8.state = "QUIT"], rest, file)
                   [] e.sym = "SPACE" ->
                        IF c.state = "RUNNING"
                        THEN [h EXCEPT !.chip8.state = "PAUSED"]
                        ELSE IF c.state = "PAUSED"
                        THEN [h EXCEPT !.chip8.state = "RUNNING"]
                        ELSE h
                   [] e.sym = "EQUALS" ->
                        LET r == init_chip8(c.romName, file)
                        IN  handle_input(
                              [chip8 |-> r.chip8, ok |-> r.ok,
                               inits |-> h.inits + 1,
                               nullOpen |-> h.nullOpen \/ c.romName = "NULL"],
                              rest, file)
                   [] e.sym \in ConfigSyms ->
                        handle_input(h, rest, file)
                   [] IsKeypadSym(e.sym) ->
                        handle_input(
                          [h EXCEPT !.chip8.keypad[KeyIndex(e.sym)] = TRUE],
                          rest, file)
                   [] OTHER -> h
            [] OTHER -> handle_input(h, rest, file)

-----------------------------------------------------------------------------
(* emulate_instruction *)

InRam(a) == a \in 0 .. RamSize - 1

\* chip8->ram[a] as an rvalue; u is what the bytes outside the array hold
RamRead(c, a, u) == IF InRam(a) THEN c.ram[a + 1] ELSE u[a % 2]

\* chip8->ram[a] = v; a store outside the array leaves the array as it was
RamWrite(ram, a, v) == IF InRam(a) THEN [ram EXCEPT ![a + 1] = v] ELSE ram

InStack(sp) == sp \in 0 .. StackSize - 1

\* mutant: the inner loop of DXYN going on at column 0 past the right edge
RECURSIVE DrawBits_Wrap(_, _, _, _, _)
DrawBits_Wrap(dv, Y, X, sprite_data, j) ==
    IF j < 0 THEN dv
    ELSE
      LET idx == Y * windowWidth + X
          sprite_bit == (sprite_data \div (2 ^ j)) % 2 = 1
          pixel == dv.display[idx]
          Rest(dv2) == DrawBits_Wrap(dv2, Y, (X + 1) % windowWidth,
                                     sprite_data, j - 1)
      IN  IF pixel /\ sprite_bit
          THEN Rest([dv EXCEPT !.VF = 1, !.display[idx] = FALSE])
          ELSE Rest([dv EXCEPT !.display[idx] = (pixel # sprite_bit)])

\* mutant: the inner loop of DXYN setting pixels (|=) instead of toggling
RECURSIVE DrawBits_Or(_, _, _, _, _)
DrawBits_Or(dv, Y, X, sprite_data, j) ==
    IF j < 0 THEN dv
    ELSE
      LET idx == Y * windowWidth + X
          sprite_bit == (sprite_data \div (2 ^ j)) % 2 = 1
          pixel == dv.display[idx]
          Rest(dv2) == IF X + 1 >= windowWidth THEN dv2
                       ELSE DrawBits_Or(dv2, Y, X + 1, sprite_data, j - 1)
      IN  IF pixel /\ sprite_bit
          THEN Rest([dv EXCEPT !.VF = 1])
          ELSE Rest([dv EXCEPT !.display[idx] = (pixel \/ sprite_bit)])

\* mutant: the inner loop of DXYN without the collision test
RECURSIVE DrawBits_NoCollision(_, _, _, _, _)
DrawBits_NoCollision(dv, Y, X, sprite_data, j) ==
    IF j < 0 THEN dv
    ELSE
      LET idx == Y * windowWidth + X
          sprite_bit == (sprite_data \div (2 ^ j)) % 2 = 1
          pixel == dv.display[idx]
          Rest(dv2) == IF X + 1 >= windowWidth THEN dv2
                       ELSE DrawBits_NoCollision(dv2, Y, X + 1, sprite_data,
                                                 j - 1)
      IN  IF pixel /\ sprite_bit
          THEN Rest([dv EXCEPT !.display[idx] = FALSE])
          ELSE Rest([dv EXCEPT !.display[idx] = (pixel # sprite_bit)])

\* the inner loop of DXYN (j = 7 .. 0) on row Y from column X;
\* dv is [display, VF, acc, oob]
RECURSIVE DrawBits(_, _, _, _, _)
DrawBits(dv, Y, X, sprite_data, j) ==
    IF j < 0 THEN dv
    ELSE
      LET idx == Y * windowWidth + X
          sprite_bit == (sprite_data \div (2 ^ j)) % 2 = 1
          pixel == dv.display[idx]
          Rest(dv2) == IF X + 1 >= windowWidth THEN dv2
                       ELSE DrawBits(dv2, Y, X + 1, sprite_data, j - 1)
      IN  IF pixel /\ sprite_bit
          THEN Rest([dv EXCEPT !.VF = 1, !.display[idx] = FALSE])
          ELSE Rest([dv EXCEPT !.display[idx] = (pixel # sprite_bit)])

\* the outer loop of DXYN (i = n .. N-1), reading the sprite row at I + n
RECURSIVE DrawRows(_, _, _, _, _, _, _)
DrawRows(dv, c, u, Y, orig_X, n, N) ==
    IF n >= N THEN dv
    ELSE
      LET sprite_data == RamRead(c, c.I + n, u)
          dv1 == [dv EXCEPT !.acc = @ \cup {c.I + n},
                            !.oob = @ \/ ~InRam(c.I + n)]
          dv2 == DrawBits(dv1, Y, orig_X, sprite_data, 7)
      IN  IF Y + 1 >= windowHeight THEN dv2
          ELSE DrawRows(dv2, c, u, Y + 1, orig_X, n + 1, N)

\* the scan loop of FX0A: for (i = n; key == 0xFF && i < 16; i++)
RECURSIVE ScanKeys(_, _, _)
ScanKeys(keypad, st, n) ==
    IF ~(st.key = NoKey /\ n < 16) THEN st
    ELSE IF keypad[n]
         THEN ScanKeys(keypad, [key |-> n, any_key_pressed |-> TRUE], n + 1)
         ELSE ScanKeys(keypad, st, n + 1)

\* mutant: FX55 writes every register to ram[I] and leaves I alone
RECURSIVE StoreRegs_NoAdvance(_, _, _, _)
StoreRegs_NoAdvance(cr, ext, n, X) ==
    IF n > X THEN cr
    ELSE
      LET c == cr.c
          a == c.I
          c2 == [c EXCEPT !.ram = RamWrite(@, a, c.V[n])]
      IN  StoreRegs_NoAdvance([c |-> c2, acc |-> cr.acc \cup {a},
                               oob |-> cr.oob \/ ~InRam(a)], ext, n + 1, X)

\* the loop of FX55 (i = n .. X); cr is [c, acc, oob]
RECURSIVE StoreRegs(_, _, _, _)
StoreRegs(cr, ext, n, X) ==
    IF n > X THEN cr
    ELSE
      LET c == cr.c
          a == IF ext = "CHIP8" THEN c.I ELSE c.I + n
          c2 == [c EXCEPT !.ram = RamWrite(@, a, c.V[n]),
                          !.I = IF ext = "CHIP8" THEN (@ + 1) % 65536 ELSE @]
      IN  StoreRegs([c |-> c2, acc |-> cr.acc \cup {a},
                     oob |-> cr.oob \/ ~InRam(a)], ext, n + 1, X)

\* the loop of FX65 (i = n .. X)
RECURSIVE LoadRegs(_, _, _, _, _)
LoadRegs(cr, ext, u, n, X) ==
    IF n > X THEN cr
    ELSE
      LET c == cr.c
          a == IF ext = "CHIP8" THEN c.I ELSE c.I + n
          c2 == [c EXCEPT !.V[n] = RamRead(c, a, u),
                          !.I = IF ext = "CHIP8" THEN (@ + 1) % 65536 ELSE @]
      IN  LoadRegs([c |-> c2, acc |-> cr.acc \cup {a},
                    oob |-> cr.oob \/ ~InRam(a)], ext, u, n + 1, X)

\* mutant: chip8->PC = *chip8->stackPtr--
Return_PostDecrement(c, u) ==
    LET sp == c.stackPtr
    IN  [c EXCEPT !.stackPtr = sp - 1,
                  !.PC = IF InStack(sp) THEN c.stack[sp] ELSE u[0] * 256 + u[1]]

\* 00EE: chip8->PC = *--chip8->stackPtr
Return(c, u) ==
    LET sp == c.stackPtr - 1
    IN  [c EXCEPT !.stackPtr = sp,
                  !.PC = IF InStack(sp) THEN c.stack[sp] ELSE u[0] * 256 + u[1]]

\* 2NNN: *chip8->stackPtr++ = chip8->PC; chip8->PC = NNN
Call(c, NNN) ==
    LET sp == c.stackPtr
    IN  [c EXCEPT !.stack = IF InStack(sp) THEN [@ EXCEPT ![sp] = c.PC] ELSE @,
                  !.stackPtr = sp + 1,
                  !.PC = NNN]

\* mutant: the flag written before the result
Flag_First(c, X, v, carry) ==
    [c EXCEPT !.V[15] = IF carry THEN 1 ELSE 0, !.V[X] = v]

\* 8XY4 .. 8XYE: chip8->V[X] = v; chip8->V[0xF] = carry, in this order
Flag(c, X, v, carry) ==
    [c EXCEPT !.V[X] = v, !.V[15] = IF carry THEN 1 ELSE 0]

\* mutant: the shifts always read VX
ShiftSource_AlwaysVX(ext, VX, VY) == VX

\* mutant: the shifts always read VY
ShiftSource_AlwaysVY(ext, VX, VY) == VY

\* 8XY6 / 8XYE: the register shifted is VY under CHIP8, VX otherwise
ShiftSource(ext, VX, VY) == IF ext = "CHIP8" THEN VY ELSE VX

\* mutant: VF cleared under every extension
LogicFlag_Cleared(ext, VF) == 0

\* 8XY1 / 8XY2 / 8XY3: if (config.extension == CHIP8) chip8->V[0xF] = 0
LogicFlag(ext, VF) == IF ext = "CHIP8" THEN 0 ELSE VF

\* mutant: the fetch steps over two instruction words
Fetch_TwoWords(c0, u) ==
    [c0 EXCEPT !.inst = RamRead(c0, c0.PC, u) * 256 + RamRead(c0, c0.PC + 1, u),
               !.PC = (@ + 4) % 65536]

\* the fetch: inst.opcode = (ram[PC] << 8) | ram[PC + 1]; PC += 2
Fetch(c0, u) ==
    [c0 EXCEPT !.inst = RamRead(c0, c0.PC, u) * 256 + RamRead(c0, c0.PC + 1, u),
               !.PC = (@ + 2) % 65536]

\* One call of emulate_instruction on machine c0 with the statics st =
\* [key, any_key_pressed], config.extension ext, rand() % 256 = rnd and u
\* the bytes read outside an array.  The result is [chip8, st, acc, oob]:
\* the machine and statics afterwards, the RAM indices used and whether
\* some index was outside its array.
emulate_instruction(c0, st, ext, rnd, u) ==
    LET c == Fetch(c0, u)
        opcode == c.inst
        NNN == opcode % 4096
        NN == opcode % 256
        N == opcode % 16
        X == (opcode \div 256) % 16
        Y == (opcode \div 16) % 16
        VX == c.V[X]
        VY == c.V[Y]
        facc == {c0.PC, c0.PC + 1}
        foob == ~InRam(c0.PC) \/ ~InRam(c0.PC + 1)
        R(c2) == [chip8 |-> c2, st |-> st, acc |-> facc, oob |-> foob]
        Skip(cond) == R(IF cond THEN [c EXCEPT !.PC = (@ + 2) % 65536] ELSE c)
        shifted == ShiftSource(ext, VX, VY)
    IN
    CASE opcode \div 4096 = 0 ->
           IF NN = 224 THEN R([c EXCEPT !.display = ZeroChip8.display])
           ELSE IF NN = 238
           THEN [chip8 |-> Return(c, u), st |-> st, acc |-> facc,
                 oob |-> foob \/ ~InStack(c.stackPtr - 1)]
           ELSE R(c)
      [] opcode \div 4096 = 1 -> R([c EXCEPT !.PC = NNN])
      [] opcode \div 4096 = 2 ->
           [chip8 |-> Call(c, NNN), st |-> st, acc |-> facc,
            oob |-> foob \/ ~InStack(c.stackPtr)]
      [] opcode \div 4096 = 3 -> Skip(VX = NN)
      [] opcode \div 4096 = 4 -> Skip(VX # NN)
      [] opcode \div 4096 = 5 -> Skip(VX = VY)
      [] opcode \div 4096 = 6 -> R([c EXCEPT !.V[X] = NN])
      [] opcode \div 4096 = 7 -> R([c EXCEPT !.V[X] = (VX + NN) % 256])
      [] opcode \div 4096 = 8 ->
           CASE N = 0 -> R([c EXCEPT !.V[X] = VY])
             [] N = 1 -> R([c EXCEPT !.V[X] = BitOr(VX, VY),
                                     !.V[15] = LogicFlag(ext, @)])
             [] N = 2 -> R([c EXCEPT !.V[X] = BitAnd(VX, VY),
                                     !.V[15] = LogicFlag(ext, @)])
             [] N = 3 -> R([c EXCEPT !.V[X] = BitXor(VX, VY),
                                     !.V[15] = LogicFlag(ext, @)])
             [] N = 4 -> R(Flag(c, X, (VX + VY) % 256, VX + VY > 255))
             [] N = 5 -> R(Flag(c, X, (VX - VY + 256) % 256, VX >= VY))
             [] N = 6 -> R(Flag(c, X, shifted \div 2, shifted % 2 = 1))
             [] N = 7 -> R(Flag(c, X, (VY - VX + 256) % 256, VX <= VY))
             [] N = 14 -> R(Flag(c, X, (shifted * 2) % 256, shifted >= 128))
             [] OTHER -> R(c)
      [] opcode \div 4096 = 9 -> Skip(VX # VY)
      [] opcode \div 4096 = 10 -> R([c EXCEPT !.I = NNN])
      [] opcode \div 4096 = 11 -> R([c EXCEPT !.PC = c.V[0] + NNN])
      [] opcode \div 4096 = 12 -> R([c EXCEPT !.V[X] = BitAnd(rnd, NN)])
      [] opcode \div 4096 = 13 ->
           LET X_cord == VX % windowWidth
               Y_Cord == VY % windowHeight
               dv == DrawRows([display |-> c.display, VF |-> 0,
                               acc |-> facc, oob |-> foob],
                              c, u, Y_Cord, X_cord, 0, N)
           IN  [chip8 |-> [c EXCEPT !.display = dv.display,
                                    !.V[15] = dv.VF,
                                    !.draw = TRUE],
                st |-> st, acc |-> dv.acc, oob |-> dv.oob]
      [] opcode \div 4096 = 14 ->
           LET pressed == IF VX < 16 THEN c.keypad[VX] ELSE u[0] # 0
               r == IF NN = 158 THEN Skip(pressed)
                    ELSE IF NN = 161 THEN Skip(~pressed)
                    ELSE R(c)
           IN  [r EXCEPT !.oob = @ \/ (NN \in {158, 161} /\ VX >= 16)]
      [] OTHER ->
           CASE NN = 7 -> R([c EXCEPT !.V[X] = c.delayTimer])
             [] NN = 10 ->
                  LET s2 == ScanKeys(c.keypad, st, 0)
                  IN  IF ~s2.any_key_pressed
                      THEN [R([c EXCEPT !.PC = (@ + 65534) % 65536])
                              EXCEPT !.st = s2]
                      ELSE IF c.keypad[s2.key]
                      THEN [R([c EXCEPT !.PC = (@ + 65534) % 65536])
                              EXCEPT !.st = s2]
                      ELSE [R([c EXCEPT !.V[X] = s2.key])
                              EXCEPT !.st = [key |-> NoKey,
                                             any_key_pressed |-> FALSE]]
             [] NN = 21 -> R([c EXCEPT !.delayTimer = VX])
             [] NN = 24 -> R([c EXCEPT !.soundTimer = VX])
             [] NN = 30 -> R([c EXCEPT !.I = (@ + VX) % 65536])
             [] NN = 41 -> R([c EXCEPT !.I = VX * 5])
             [] NN = 51 ->
                  [chip8 |-> [c EXCEPT !.ram =
                                RamWrite(RamWrite(RamWrite(@,
                                    c.I + 2, VX % 10),
                                    c.I + 1, (VX \div 10) % 10),
                                    c.I, (VX \div 100) % 10)],
                   st |-> st,
                   acc |-> facc \cup {c.I, c.I + 1, c.I + 2},
                   oob |-> foob \/ ~InRam(c.I + 2)]
             [] NN = 85 ->
                  LET cr == StoreRegs([c |-> c, acc |-> facc, oob |-> foob],
                                      ext, 0, X)
                  IN  [chip8 |-> cr.c, st |-> st, acc |-> cr.acc, oob |-> cr.oob]
             [] NN = 101 ->
                  LET cr == LoadRegs([c |-> c, acc |-> facc, oob |-> foob],
                                     ext, u, 0, X)
                  IN  [chip8 |-> cr.c, st |-> st, acc |-> cr.acc, oob |-> cr.oob]
             [] OTHER -> R(c)

-----------------------------------------------------------------------------
(* update_timers *)

\* mutant: both timers decremented without the test of > 0
update_timers_Unguarded(c) ==
    [chip8 |-> [c EXCEPT !.delayTimer = (@ + 255) % 256,
                         !.soundTimer = (@ + 255) % 256],
     audio |-> c.soundTimer > 0]

\* mutant: the audio device follows the sound timer after its decrement
update_timers_AudioAfter(c) ==
    [chip8 |-> [c EXCEPT !.delayTimer = IF @ > 0 THEN @ - 1 ELSE @,
                         !.soundTimer = IF @ > 0 THEN @ - 1 ELSE @],
     audio |-> c.soundTimer > 1]

\* the machine and the audio device after update_timers: [chip8, audio]
update_timers(c) ==
    [chip8 |-> [c EXCEPT
                  !.delayTimer = IF @ > 0 THEN @ - 1 ELSE @,
                  !.soundTimer = IF @ > 0 THEN @ - 1 ELSE @],
     audio |-> c.soundTimer > 0]

-----------------------------------------------------------------------------
(* Program images *)

\* the bytes of a sequence of 16-bit instruction words, big-endian
Image(words) ==
    [b \in 1 .. 2 * Len(words) |->
        IF b % 2 = 1 THEN words[(b + 1) \div 2] \div 256
                     ELSE words[b \div 2] % 256]

Rom(bytes) == [exists |-> TRUE, bytes |-> bytes]

MissingRom == [exists |-> FALSE, bytes |-> << >>]

EmptyRom == Rom(<< >>)

\* size bytes of the instruction 1200 (jump to the entry point)
JumpRom(size) == Rom([b \in 1 .. size |-> IF b % 2 = 1 THEN \h12 ELSE \h00])

FullRom == JumpRom(RamSize - entryPoint)

TooBigRom == JumpRom(RamSize - entryPoint + 1)

ClearLoopRom == Rom(Image(<< \h00E0, \h1200 >>))

RecurseRom == Rom(Image(<< \h2200 >>))

ReturnRom == Rom(Image(<< \h00EE >>))

JumpEdgeRom == Rom(Image(<< \h1FFF >>))

KeyWaitRom == Rom(Image(<< \hF00A, \h1200 >>))

\* sets both timers, rewrites its own first bytes, draws a glyph, parks
BusyRom ==
    Rom(Image(<< \h6003, \hF015, \hF018, \hA200, \hF033,
                 \hA000, \hD005, \h120E >>))

BusyPark == entryPoint + 14

\* A program that makes d0 calls that never return, then a chain of N
\* nested calls followed by N returns.  The first call of the chain is at
\* ChainStart(d0) and the instruction after it (ChainPark) jumps to itself;
\* call k of the chain (k = 2 .. N) is followed by a 00EE, and the target
\* of call N holds a 00EE.
ChainStart(d0) == entryPoint + 2 * d0

ChainPark(d0) == ChainStart(d0) + 2

ChainWords(d0, N) ==
    [w \in 1 .. d0 + 2 * N + 1 |->
        IF w <= d0 THEN \h2000 + entryPoint + 2 * w
        ELSE IF w = d0 + 2 THEN \h1000 + ChainPark(d0)
        ELSE IF (w - d0) % 2 = 1 /\ w < d0 + 2 * N + 1
             THEN \h2000 + entryPoint + 2 * (w - 1) + 4
        ELSE \h00EE]

ChainRom(d0, N) == Rom(Image(ChainWords(d0, N)))

ChainParams ==
    {<<d0, N>> \in (0 .. StackSize) \X (1 .. MaxChain) :
        d0 \in {0, StackSize - N}}

\* jumps to the odd address 0x203, where the bytes 12 03 jump there again
OddJumpRom == Rom(<< \h12, \h03, \h00, \h12, \h03 >>)

\* words outside the instruction set (8008, E000, F0FF), a glyph drawn, then
\* 01E0 and 5011
UnknownOpsRom ==
    Rom(Image(<< \h8008, \hE000, \hF0FF, \hA000, \hD005, \h01E0, \h5011,
                 \h1200, \h1200 >>))

\* sets both timers to v and parks at TimerPark
TimerRom(v) == Rom(Image(<< \h6000 + v, \hF015, \hF018, \h1206 >>))

TimerPark == entryPoint + 6

\* the values the timer programs set
TimerValues == {0, 1, 5, 255}

\* A program that draws twice in a row: it sets VX = vx and V1 = vy, draws
\* (when pre) the glyph 8 there, sets VX and I = iaddr and executes DX1n
\* twice, then parks.  The first DX1n is at DrawFirst(pre).
DrawWords(vx, vy, n, iaddr, X, pre) ==
    LET setX == \h6000 + 256 * X + vx
        draw == \hD010 + 256 * X + n
        head == << setX, \h6100 + vy >>
        before == IF pre THEN << \hA028, \hD015 + 256 * X, setX >> ELSE << >>
        park == \h1000 + entryPoint + 2 * (Len(head) + Len(before) + 3)
    IN  head \o before \o << \hA000 + iaddr, draw, draw, park >>

DrawRom(vx, vy, n, iaddr, X, pre) == Rom(Image(DrawWords(vx, vy, n, iaddr, X, pre)))

DrawFirst(pre) == entryPoint + (IF pre THEN 12 ELSE 6)

\* VA = 5, I = the glyph of VA, draw 5 rows at (VA, VB), park
GlyphRom == Rom(Image(<< \h6A05, \hFA29, \hDAB5, \h1206 >>))

GlyphPark == entryPoint + 6

\* the first batch draws the glyph 0 (and is flushed), the second clears
\* the screen and parks
ClearLateRom ==
    Rom(Image(<< \hA000, \hD005, \h6000, \h6000, \h6000, \h6000, \h6000,
                 \h6000, \h00E0, \h1212 >>))

\* the values of VX, VY and N of the drawing programs
DrawXs == {0, 62, 70}

DrawYs == {0, 30, 40}

DrawNs == {0, 5, 15}

\* <<vx, vy, n, iaddr, X, pre>>: glyph 0 everywhere, on a clear and on a
\* drawn screen; the glyph 1, an all-zero sprite and a sprite that ends past
\* the RAM; VF as the X register
DrawParams ==
    (DrawXs \X DrawYs \X DrawNs \X {0} \X {0} \X BOOLEAN)
    \cup (DrawXs \X {0} \X {5} \X {5, 768, RamSize - 2} \X {0} \X {FALSE})
    \cup (DrawXs \X {0, 31} \X {5} \X {0} \X {15} \X BOOLEAN)

DrawRoms == {DrawRom(q[1], q[2], q[3], q[4], q[5], q[6]) : q \in DrawParams}

\* the images of the runs with user input
Roms ==
    {EmptyRom, FullRom, TooBigRom, ClearLoopRom, ReturnRom, KeyWaitRom,
     BusyRom}

\* the images without a DXYN
LoopRoms ==
    {ClearLoopRom, RecurseRom, ReturnRom, JumpEdgeRom, OddJumpRom}
    \cup {TimerRom(v) : v \in TimerValues}
    \cup {ChainRom(p[1], p[2]) : p \in ChainParams}

\* the images of the runs without user input
ProgramRoms ==
    LoopRoms \cup {BusyRom, UnknownOpsRom, GlyphRom, ClearLateRom}

-----------------------------------------------------------------------------
(* main *)

\* mutant: the batch sized for 50 iterations a second
BatchSize_Fifty == insts_per_second \div 50

\* instructions per iteration of the driver loop
BatchSize == insts_per_second \div 60

Statics == [key |-> key, any_key_pressed |-> any_key_pressed]

\* no key event was handled during the current wait
NoTaps == [k \in 0 .. 15 |-> "none"]

\* the state main starts in, with the ROM file one of roms
InitWith(roms) ==
    /\ chip8 = ZeroChip8
    /\ extension = "CHIP8"
    /\ romFile \in roms
    /\ key = NoKey
    /\ any_key_pressed = FALSE
    /\ audio = FALSE
    /\ pc = "start"
    /\ i = 0
    /\ initResult = "none"
    /\ access = {}
    /\ undefined = 0
    /\ waitSeen = {}
    /\ screen = ZeroChip8.display
    /\ waitTaps = NoTaps

Init == InitWith(Roms)

\* if (!init_chip8(&chip8, config, romName)) exit(EXIT_FAILURE);
Load ==
    /\ pc = "start"
    /\ LET r == init_chip8("argv1", romFile)
       IN  /\ chip8' = r.chip8
           /\ initResult' = IF r.ok THEN "ok" ELSE "failed"
           /\ pc' = IF r.ok THEN "poll" ELSE "exit_failure"
    /\ waitSeen' = {}
    /\ waitTaps' = NoTaps
    /\ UNCHANGED <<extension, romFile, key, any_key_pressed, audio, i,
                   access, undefined, screen>>

\* handle_input(&chip8, &config) with the events evs pending
Polled(evs) ==
    handle_input([chip8 |-> chip8, ok |-> initResult = "ok", inits |-> 0,
                  nullOpen |-> FALSE],
                 evs, romFile)

\* mutant: main without the test of PAUSED
AfterPoll_NoPauseTest(state) == "batch"

\* if (chip8.state == PAUSED) continue;
AfterPoll(state) == IF state = "PAUSED" THEN "poll" ELSE "batch"

IsKeyWait(opcode) == opcode \div 4096 = 15 /\ opcode % 256 = \h0A

\* PC stands at an FX0A instruction of a running machine
AtKeyWait(c) ==
    /\ c.state = "RUNNING"
    /\ c.PC + 1 < RamSize
    /\ IsKeyWait(c.ram[c.PC + 1] * 256 + c.ram[c.PC + 2])

\* waitTaps after handle_input handled the queue evs (it returns at QUIT,
\* at the space bar and at a key it does not know)
RECURSIVE TapsAfter(_, _)
TapsAfter(w, evs) ==
    IF evs = << >> THEN w
    ELSE
      LET e == Head(evs)
          rest == Tail(evs)
      IN  CASE e.type = "QUIT" -> w
            [] e.type = "KEYUP" ->
                 IF IsKeypadSym(e.sym)
                 THEN TapsAfter(
                        [w EXCEPT ![KeyIndex(e.sym)] =
                                    IF @ = "down" THEN "tapped" ELSE @],
                        rest)
                 ELSE TapsAfter(w, rest)
            [] e.type = "KEYDOWN" ->
                 CASE e.sym \in {"ESCAPE", "EQUALS"} \cup ConfigSyms ->
                        TapsAfter(w, rest)
                   [] e.sym = "SPACE" -> w
                   [] IsKeypadSym(e.sym) ->
                        TapsAfter(
                          [w EXCEPT ![KeyIndex(e.sym)] =
                                      IF @ = "none" THEN "down" ELSE @],
                          rest)
                   [] OTHER -> w
            [] OTHER -> TapsAfter(w, rest)

\* handle_input with one of the event queues pending, then the test of
\* PAUSED; a null file name makes fopen fail
HandleInputWith(queues, record) ==
    /\ pc = "poll"
    /\ \E evs \in queues :
         LET h == Polled(evs)
         IN  /\ chip8' = h.chip8
             /\ initResult' = IF h.inits = 0 THEN initResult
                              ELSE IF h.ok THEN "ok" ELSE "failed"
             /\ pc' = AfterPoll(h.chip8.state)
             /\ waitSeen' = IF h.inits = 0 THEN waitSeen ELSE {}
             /\ waitTaps' = IF h.inits > 0 THEN NoTaps
                             ELSE IF record /\ AtKeyWait(chip8)
                             THEN TapsAfter(waitTaps, evs)
                             ELSE waitTaps
    /\ i' = 0
    /\ UNCHANGED <<extension, romFile, key, any_key_pressed, audio,
                   access, undefined, screen>>

\* the history waitTaps is kept only by the specification SpecKeys
HandleInputOn(queues) == HandleInputWith(queues, FALSE)

HandleInput == HandleInputOn(EventQueues)

\* handle_input when the user does nothing: no event is pending
HandleNoInput == HandleInputOn({<< >>})

\* FX0A is the instruction word
\* waitSeen after the instruction that took machine c to machine d
SeenAfter(c, d) ==
    IF ~IsKeyWait(d.inst) THEN waitSeen
    ELSE IF d.PC = c.PC THEN waitSeen \cup {k \in 0 .. 15 : c.keypad[k]}
    ELSE {}

\* one iteration of the for loop: emulate_instruction(&chip8, config)
Step ==
    /\ pc = "batch"
    /\ i < BatchSize
    /\ \E rnd \in RandBytes, u \in [0 .. 1 -> OobBytes] :
         LET r == emulate_instruction(chip8, Statics, extension, rnd, u)
         IN  /\ (r.oob \/ undefined > 0) => undefined < MaxUndefined
             /\ chip8' = r.chip8
             /\ key' = r.st.key
             /\ any_key_pressed' = r.st.any_key_pressed
             /\ access' = r.acc
             /\ undefined' = IF r.oob \/ undefined > 0
                             THEN undefined + 1 ELSE undefined
             /\ waitSeen' = SeenAfter(chip8, r.chip8)
             /\ waitTaps' = IF IsKeyWait(r.chip8.inst) /\ r.chip8.PC # chip8.PC
                             THEN NoTaps ELSE waitTaps
    /\ i' = i + 1
    /\ pc' = IF i + 1 < BatchSize THEN "batch" ELSE "flush"
    /\ UNCHANGED <<extension, romFile, audio, initResult, screen>>

\* an instruction that indexes outside an array may end the process
StepCrash ==
    /\ pc = "batch"
    /\ i < BatchSize
    /\ undefined < MaxUndefined
    /\ \E rnd \in RandBytes, u \in [0 .. 1 -> OobBytes] :
         LET r == emulate_instruction(chip8, Statics, extension, rnd, u)
         IN  /\ r.oob
             /\ access' = r.acc
    /\ undefined' = undefined + 1
    /\ pc' = "crashed"
    /\ UNCHANGED <<chip8, extension, romFile, key, any_key_pressed, audio, i,
                   initResult, waitSeen, screen, waitTaps>>

\* mutant: the flush without chip8.draw = false
Flush_KeepDirty ==
    /\ pc = "flush"
    /\ screen' = IF chip8.draw THEN chip8.display ELSE screen
    /\ pc' = "timers"
    /\ UNCHANGED <<chip8, extension, romFile, key, any_key_pressed, audio, i,
                   initResult, access, undefined, waitSeen, waitTaps>>

\* if (chip8.draw) { update_screen(sdl, config, &chip8); chip8.draw = false; }
Flush ==
    /\ pc = "flush"
    /\ screen' = IF chip8.draw THEN chip8.display ELSE screen
    /\ chip8' = [chip8 EXCEPT !.draw = FALSE]
    /\ pc' = "timers"
    /\ UNCHANGED <<extension, romFile, key, any_key_pressed, audio, i,
                   initResult, access, undefined, waitSeen, waitTaps>>

\* update_timers(sdl, &chip8), then the test of while (chip8.state != QUIT)
UpdateTimers ==
    /\ pc = "timers"
    /\ LET r == update_timers(chip8)
       IN  /\ chip8' = r.chip8
           /\ audio' = r.audio
    /\ pc' = IF chip8.state # "QUIT" THEN "poll" ELSE "done"
    /\ UNCHANGED <<extension, romFile, key, any_key_pressed, i,
                   initResult, access, undefined, waitSeen, screen, waitTaps>>

Next == Load \/ HandleInput \/ Step \/ StepCrash \/ Flush \/ UpdateTimers

Spec == Init /\ [][Next]_vars

\* the runs without user input
InitRun == InitWith(ProgramRoms)

NextRun == Load \/ HandleNoInput \/ Step \/ StepCrash \/ Flush \/ UpdateTimers

SpecRun == InitRun /\ [][NextRun]_vars

\* main is one sequential loop: whenever it can take its next step it
\* does (the runs of the images without a DXYN)
InitLoop == InitWith(LoopRoms)

SpecRunFair == InitLoop /\ [][NextRun]_vars /\ WF_vars(NextRun)

\* the runs of the drawing programs
InitDraw == InitWith(DrawRoms)

SpecDraw == InitDraw /\ [][NextRun]_vars

-----------------------------------------------------------------------------
(* emulate_instruction as a function of the machine, the instruction word
   and config.extension: one instruction, the last of a batch *)

\* extension_t values a config_t can hold that the opcodes test
Extensions == {"CHIP8", "SUPERCHIP"}

\* register contents: both ends, both edge bits, and values that carry
OpValues == {0, 1, 3, 128, 255}

\* <<X, Y>> of the 8XYN words: distinct, VF as X, VF as Y, X = Y, both VF
OpRegPairs == {<<0, 1>>, <<15, 1>>, <<0, 15>>, <<1, 1>>, <<15, 15>>}

\* the 8XYN words (N = 8 has no case)
AluWords ==
    {\h8000 + 256 * q[1] + 16 * q[2] + n :
        q \in OpRegPairs, n \in {0, 1, 2, 3, 4, 5, 6, 7, 8, 14}}

\* one word or more of every other case of the two switches
OtherWords ==
    {\h00E0, \h00EE, \h0123, \h1234, \h2234, \h3001, \h4001, \h5010,
     \h6012, \h7012, \h9010, \hA123, \hB123, \hB0FF, \hC0FF, \hD015,
     \hE09E, \hE0A1, \hEF9E, \hEFA1, \hE000,
     \hF007, \hF00A, \hF015, \hF018, \hF01E, \hF029, \hF033, \hF0FF,
     \hF055, \hF255, \hFF55, \hF065, \hF265, \hFF65}

OpWords == AluWords \cup OtherWords

\* the image: the word, then a jump to itself
OpRom(word) == Rom(Image(<< word, \h1202 >>))

\* V with a in register X and b in register Y of the word (b when X = Y),
\* the other registers all different
OpRegs(word, a, b) ==
    [r \in 0 .. 15 |->
        IF r = (word \div 16) % 16 THEN b
        ELSE IF r = (word \div 256) % 16 THEN a
        ELSE 17 * r]

\* I: the font, or the last two bytes of the RAM (FXNN words only)
OpIndexes(word) == IF word \div 4096 = 15 THEN {0, RamSize - 2} ELSE {0}

\* contents of register Y: every value for the words that read VY
OpSeconds(word) ==
    IF word \div 4096 \in {5, 8, 9, 13} THEN OpValues ELSE {1}

\* key 1 held down
OpKeypad == [k \in 0 .. 15 |-> k = 1]

\* main is about to execute the last instruction of a batch: the word, on
\* the machine init_chip8 loaded, with the registers, I and keypad above
InitOp ==
    /\ \E word \in OpWords, a \in OpValues :
         \E b \in OpSeconds(word), index \in OpIndexes(word) :
            /\ romFile = OpRom(word)
            /\ chip8 = [init_chip8("argv1", OpRom(word)).chip8 EXCEPT
                           !.V = OpRegs(word, a, b),
                           !.I = index,
                           !.keypad = OpKeypad]
    /\ extension \in Extensions
    /\ key = NoKey
    /\ any_key_pressed = FALSE
    /\ audio = FALSE
    /\ pc = "batch"
    /\ i = BatchSize - 1
    /\ initResult = "ok"
    /\ access = {}
    /\ undefined = 0
    /\ waitSeen = {}
    /\ screen = ZeroChip8.display
    /\ waitTaps = NoTaps

NextOp == Step \/ StepCrash

SpecOp == InitOp /\ [][NextOp]_vars

-----------------------------------------------------------------------------
(* The ROM file may be replaced or removed while the emulator runs *)

DiskRoms == {ClearLoopRom, EmptyRom, TooBigRom, MissingRom}

InitDisk == InitWith({ClearLoopRom, MissingRom})

ReplaceRom ==
    /\ pc \in {"poll", "batch", "flush", "timers"}
    /\ romFile' \in DiskRoms \ {romFile}
    /\ UNCHANGED <<chip8, extension, key, any_key_pressed, audio, pc, i,
                   initResult, access, undefined, waitSeen, screen, waitTaps>>

\* fopen of a null file name may end the process
PollCrash ==
    /\ pc = "poll"
    /\ \E evs \in EventQueues : Polled(evs).nullOpen
    /\ pc' = "crashed"
    /\ UNCHANGED <<chip8, extension, romFile, key, any_key_pressed, audio, i,
                   initResult, access, undefined, waitSeen, screen, waitTaps>>

NextDisk == Next \/ ReplaceRom \/ PollCrash

SpecDisk == InitDisk /\ [][NextDisk]_vars

-----------------------------------------------------------------------------
(* A program that waits for a key, with the user at the keyboard; the main
   loop never stops by itself, the user may do nothing *)

KeyRoms == {KeyWaitRom, ReturnRom}

InitKeys == InitWith(KeyRoms)

\* handle_input(&chip8, &config, romName), the taps of the wait recorded
HandleKeys == HandleInputWith(EventQueues, TRUE)

NextKeys == Load \/ HandleKeys \/ Step \/ StepCrash \/ Flush \/ UpdateTimers

SpecKeys == InitKeys /\ [][NextKeys]_vars /\ WF_vars(NextKeys)

-----------------------------------------------------------------------------
(* Properties *)

\* C1: every RAM index emulate_instruction uses (the fetch at PC and PC+1,
\* the sprite rows of DXYN, the digits of FX33, the block of FX55/FX65)
\* lies in 0 .. 4095.  It is stated of the instructions up to and including
\* the first one that indexes outside an array: what a later one does is
\* undefined already.
C1_RamAccessInBounds == undefined <= 1 => access \subseteq 0 .. RamSize - 1

\* C2: the call-stack depth stackPtr - stack never exceeds the capacity of
\* 12 entries.
C2_StackDepthWithinCapacity == chip8.stackPtr <= StackSize

\* C3: once the program is loaded the stack depth is never negative: 00EE
\* on an empty stack does not move stackPtr below the stack base.
C3_StackDepthNotNegative ==
    pc \notin {"start", "exit_failure"} => chip8.stackPtr >= 0

\* C4: no instruction is executed and no timer tick happens while the
\* execution mode is not RUNNING.
C4_ExecutesOnlyWhenRunning ==
    [][(Step \/ StepCrash \/ UpdateTimers) => chip8.state = "RUNNING"]_vars

\* C5: QUIT is terminal: in no call of handle_input, on any pending events,
\* does the state leave QUIT once the events handled so far have set it.
C5_QuitIsTerminal ==
    pc = "poll" =>
      \A evs \in EventQueues : \A n \in 0 .. Len(evs) :
         Polled(SubSeq(evs, 1, n)).chip8.state = "QUIT"
            => Polled(evs).chip8.state = "QUIT"

\* registers, I, PC, call stack, RAM, framebuffer and timers of c and d agree
Frozen(c, d) ==
    /\ c.V = d.V
    /\ c.I = d.I
    /\ c.PC = d.PC
    /\ c.stack = d.stack
    /\ c.stackPtr = d.stackPtr
    /\ c.ram = d.ram
    /\ c.display = d.display
    /\ c.delayTimer = d.delayTimer
    /\ c.soundTimer = d.soundTimer

\* C6 as stated: every step taken while the mode is PAUSED, whatever events
\* arrive, leaves registers, I, PC, stack, RAM, framebuffer and timers as
\* they were.
C6_PausedFreezesAll ==
    [][chip8.state = "PAUSED" => Frozen(chip8, chip8')]_vars

\* C6 amended: every step taken while the mode is PAUSED either leaves
\* registers, I, PC, stack, RAM, framebuffer and timers as they were or is
\* a reset, which leaves them as init_chip8 makes them.
C6_PausedFreezesUnlessReset ==
    [][chip8.state = "PAUSED" =>
          \/ Frozen(chip8, chip8')
          \/ Frozen(init_chip8(chip8.romName, romFile).chip8, chip8')]_vars

\* C6 witness: paused in the middle of a run (timers running, framebuffer
\* drawn, RAM rewritten by the program) with a key event handled meanwhile
C6_PausedMidRun ==
    /\ chip8.state = "PAUSED"
    /\ romFile = BusyRom
    /\ chip8.delayTimer > 0
    /\ chip8.PC # entryPoint
    /\ chip8.display # ZeroChip8.display
    /\ chip8.keypad[1]

\* C7: a reset leaves the machine and all interpreter state, the pending
\* key capture of FX0A included, exactly as the initial load does.
C7_ResetIsFreshStart ==
    [][(pc = "poll" /\ chip8' = Polled(<<[type |-> "KEYDOWN", sym |-> "EQUALS"]>>).chip8
          /\ initResult = "ok")
        => /\ chip8' = init_chip8("argv1", romFile).chip8
           /\ key' = NoKey
           /\ any_key_pressed' = FALSE]_vars

\* C8: the initial load fails exactly for the images of more than
\* 4096 - 0x200 bytes; when it succeeds RAM holds the font, the image at
\* 0x200 and zeros elsewhere, PC = 0x200, the stack is empty and the state
\* is RUNNING.
C8_LoadContract ==
    [][pc = "start" =>
         LET size == Len(romFile.bytes)
         IN  IF size > RamSize - entryPoint
             THEN initResult' = "failed" /\ pc' = "exit_failure"
             ELSE /\ initResult' = "ok"
                  /\ \A a \in 0 .. RamSize - 1 :
                        chip8'.ram[a + 1] =
                          IF a < Len(font) THEN font[a + 1]
                          ELSE IF a >= entryPoint /\ a < entryPoint + size
                          THEN romFile.bytes[a - entryPoint + 1]
                          ELSE 0
                  /\ chip8'.PC = entryPoint
                  /\ chip8'.stackPtr = 0
                  /\ chip8'.state = "RUNNING"]_vars

\* C9: after init_chip8 has returned false no instruction is executed, and
\* RAM from 0x200 upward holds no byte of the image.
C9_FailedLoadIsFatal ==
    [][/\ initResult = "failed" => ~(Step \/ StepCrash)
       /\ initResult' = "failed" =>
             \A a \in entryPoint .. RamSize - 1 : chip8'.ram[a + 1] = 0]_vars

\* C10: in a program that makes N nested calls followed by N returns from
\* stack depth d0 (d0 + N <= 12), the return that brings the depth back to
\* d0 sets PC to the address after the first call, the depth is d0 whenever
\* PC is there, and the depth never exceeds d0 + N.
C10_CallReturnMatched ==
    \A p \in ChainParams :
       (romFile = ChainRom(p[1], p[2]) /\ pc # "start") =>
          /\ (chip8.inst = \h00EE /\ chip8.stackPtr = p[1])
                => chip8.PC = ChainPark(p[1])
          /\ chip8.PC = ChainPark(p[1]) => chip8.stackPtr = p[1]
          /\ chip8.stackPtr <= p[1] + p[2]

\* C10 witness: the last of MaxChain returns has just brought a stack that
\* was filled to its capacity back to its depth before the first call
C10_ChainReturned ==
    /\ romFile = ChainRom(StackSize - MaxChain, MaxChain)
    /\ chip8.inst = \h00EE
    /\ chip8.stackPtr = StackSize - MaxChain
    /\ chip8.PC = ChainPark(StackSize - MaxChain)
    /\ chip8.stack[StackSize - 1] # 0

\* C11: whenever main is about to call emulate_instruction (and no earlier
\* instruction indexed outside an array), the PC after the fetch is the
\* fetch address plus 2, is even and lies in 0x200 .. 0xFFF.
C11_PcAfterFetch ==
    (pc = "batch" /\ i < BatchSize /\ undefined = 0) =>
       \A u \in [0 .. 1 -> OobBytes] :
          LET after == Fetch(chip8, u).PC
          IN  /\ after = chip8.PC + 2
              /\ after % 2 = 0
              /\ after \in entryPoint .. RamSize - 1

\* the instruction words of the opcode table
InOpcodeTable(opcode) ==
    LET top == opcode \div 4096
        NN == opcode % 256
        N == opcode % 16
    IN  CASE top = 0 -> opcode \in {\h00E0, \h00EE}
          [] top \in {5, 9} -> N = 0
          [] top = 8 -> N \in 0 .. 7 \cup {14}
          [] top = 14 -> NN \in {\h9E, \hA1}
          [] top = 15 -> NN \in {\h07, \h0A, \h15, \h18, \h1E, \h29, \h33,
                                  \h55, \h65}
          [] OTHER -> TRUE

\* C12: an instruction step whose word is not in the opcode table changes
\* nothing but PC, which it advances by 2 (chip8.inst holds the word).
C12_UnknownOpcodeIsNoOp ==
    [][(Step /\ undefined' = 0 /\ ~InOpcodeTable(chip8'.inst)) =>
          chip8' = [chip8 EXCEPT !.inst = chip8'.inst, !.PC = @ + 2]]_vars

\* C13: an execution of FX0A either rewinds (PC is again the address of
\* the FX0A, the registers as before) or completes with in VX a key that it
\* finds released and that an earlier execution of this wait found pressed.
C13_KeyWaitDebounced ==
    [][(Step /\ undefined' = 0 /\ IsKeyWait(chip8'.inst)) =>
          LET VX == chip8'.V[(chip8'.inst \div 256) % 16]
          IN  \/ chip8'.PC = chip8.PC /\ chip8'.V = chip8.V
              \/ /\ chip8'.PC = chip8.PC + 2
                 /\ VX \in 0 .. 15
                 /\ VX \in waitSeen
                 /\ ~chip8.keypad[VX]]_vars

\* C14: update_timers takes one from each timer that is positive and leaves
\* a timer at 0 alone, so a timer never wraps to 255; a step that raises a
\* timer is the execution of FX15 (delay) or FX18 (sound).  It is stated of
\* the runs in which no instruction has indexed outside an array.
C14_TimersFloorAtZero ==
    [][undefined' = 0 =>
         /\ UpdateTimers =>
               /\ chip8'.delayTimer =
                     IF chip8.delayTimer > 0 THEN chip8.delayTimer - 1 ELSE 0
               /\ chip8'.soundTimer =
                     IF chip8.soundTimer > 0 THEN chip8.soundTimer - 1 ELSE 0
         /\ chip8'.delayTimer > chip8.delayTimer =>
               Step /\ chip8'.inst \div 4096 = 15 /\ chip8'.inst % 256 = \h15
         /\ chip8'.soundTimer > chip8.soundTimer =>
               Step /\ chip8'.inst \div 4096 = 15 /\ chip8'.inst % 256 = \h18]_vars

\* C14 witness: the timers set to 5 have been ticked down to 0 and ticked
\* again at 0 (that tick switched the audio off)
C14_TickedAtZero ==
    /\ romFile = TimerRom(5)
    /\ pc = "poll"
    /\ chip8.PC = TimerPark
    /\ chip8.V[0] = 5
    /\ chip8.delayTimer = 0
    /\ chip8.soundTimer = 0
    /\ ~audio

\* C15: each timer tick leaves the audio device unpaused exactly when the
\* sound timer was positive at that tick, and nothing but a tick switches
\* the device.
C15_AudioFollowsSoundTimer ==
    [][/\ UpdateTimers => (audio' = (chip8.soundTimer > 0))
       /\ audio' # audio => UpdateTimers]_vars

\* C15 witness: the tick that took the sound timer from 1 to 0 left the
\* audio on
C15_LastBeep ==
    /\ romFile = BusyRom
    /\ pc = "poll"
    /\ chip8.PC = BusyPark
    /\ chip8.V[0] = 3
    /\ chip8.soundTimer = 0
    /\ audio

\* C16 as stated: after the last instruction of a batch comes the timer
\* tick, and after the tick the flush point.
C16_BatchTickFlush ==
    [][/\ (Step /\ i' = insts_per_second \div 60) => pc' = "timers"
       /\ UpdateTimers => pc' = "flush"]_vars

\* C16 amended: an iteration that is not paused executes exactly
\* insts_per_second / 60 instructions, then reaches the flush point (which
\* leaves the dirty flag clear), then ticks the timers once and goes back to
\* the loop test; the batch counter restarts at each call of handle_input.
C16_BatchFlushTick ==
    [][/\ Step => /\ pc = "batch"
                  /\ i < insts_per_second \div 60
                  /\ i' = i + 1
                  /\ pc' = IF i' < insts_per_second \div 60
                           THEN "batch" ELSE "flush"
       /\ Flush => /\ i = insts_per_second \div 60
                   /\ ~chip8'.draw
                   /\ pc' = "timers"
       /\ UpdateTimers => /\ i = insts_per_second \div 60
                          /\ pc' \in {"poll", "done"}
       /\ pc = "poll" => i' = 0 /\ pc' \in {"poll", "batch"}]_vars

\* C16 witness: the frame of this iteration is flushed and the timers set
\* in its batch are not yet ticked
C16_FlushedNotTicked ==
    /\ romFile = BusyRom
    /\ pc = "timers"
    /\ i = insts_per_second \div 60
    /\ chip8.delayTimer = 3
    /\ chip8.display # ZeroChip8.display
    /\ ~chip8.draw

\* C17: the dirty flag is clear when a batch starts, an instruction leaves
\* it set exactly when it was set or the instruction is a DXYN, the flush
\* point leaves it clear and nothing else clears it: so at the flush point
\* it is set exactly when a DXYN has executed since the previous flush.
C17_DirtyFlag ==
    [][/\ (pc' = "batch" /\ i' = 0) => ~chip8'.draw
       /\ (Step /\ undefined' = 0) =>
             (chip8'.draw = (chip8.draw \/ chip8'.inst \div 4096 = 13))
       /\ Flush => ~chip8'.draw
       /\ (chip8.draw /\ ~chip8'.draw) => Flush]_vars

\* C17 witness: at the flush point the flag is still set by a DXYN that was
\* not the last instruction of the batch
C17_DirtyAtFlush ==
    /\ romFile = BusyRom
    /\ pc = "flush"
    /\ chip8.draw
    /\ chip8.inst = \h120E
    /\ chip8.display # ZeroChip8.display

\* DXYN is the instruction word
IsDraw(opcode) == opcode \div 4096 = 13

\* where the DXYN word opcode draws on machine c: the column VX mod 64, the
\* row VY mod 32 and the number of sprite rows
DrawAt(c, opcode) ==
    [X0 |-> c.V[(opcode \div 256) % 16] % windowWidth,
     Y0 |-> c.V[(opcode \div 16) % 16] % windowHeight,
     N  |-> opcode % 16]

\* the sprite at c.I, placed at d, has a set bit for pixel p of the
\* framebuffer: p lies in the rectangle of 8 columns and d.N rows at
\* (d.X0, d.Y0) and the bit of its column in the sprite row of its row is 1
\* (rows and columns past the edges have no pixel)
SpriteBit(c, d, p) ==
    /\ p >= d.Y0 * windowWidth
    /\ p < (d.Y0 + d.N) * windowWidth
    /\ p % windowWidth >= d.X0
    /\ p % windowWidth < d.X0 + 8
    /\ (c.ram[c.I + ((p \div windowWidth) - d.Y0) + 1]
           \div 2 ^ (7 - ((p % windowWidth) - d.X0))) % 2 = 1

\* C18: a DXYN step (no index outside an array) toggles exactly the pixels
\* of the framebuffer 0 .. 2047 for which the sprite, placed at the VX and
\* VY of before the step and clipped at the right and bottom edges, has a
\* set bit; VF becomes 1 if one of them was set and 0 otherwise; the other
\* registers, I and the RAM stay.
C18_DrawClipsAndXors ==
    [][(i' = i + 1 /\ IsDraw(chip8'.inst) /\ undefined' = 0 /\ Step) =>
          LET d == DrawAt(chip8, chip8'.inst)
          IN  /\ DOMAIN chip8'.display = 0 .. DisplaySize - 1
              /\ \A p \in 0 .. DisplaySize - 1 :
                    chip8'.display[p] =
                       (chip8.display[p] # SpriteBit(chip8, d, p))
              /\ chip8'.V[15] =
                    IF \E p \in 0 .. DisplaySize - 1 :
                          chip8.display[p] /\ SpriteBit(chip8, d, p)
                    THEN 1 ELSE 0
              /\ \A r \in 0 .. 14 : chip8'.V[r] = chip8.V[r]
              /\ chip8'.I = chip8.I
              /\ chip8'.ram = chip8.ram]_vars

\* C18 witness: the glyph 0 drawn at (63, 31) over the glyph 8 drawn there
\* before: one pixel of each is inside the screen, the draw cleared it
C18_ClippedCollision ==
    /\ romFile = DrawRom(62, 30, 5, 0, 0, TRUE)
    /\ chip8.PC = DrawFirst(TRUE) + 2
    /\ chip8.inst = \hD015
    /\ chip8.V[15] = 1
    /\ chip8.display = ZeroChip8.display

\* the machine after two executions in a row of the instruction at c.PC
\* (the second one fetched from the same address), when the first one
\* indexed no array outside its bounds
TwiceFrom(c) ==
    LET zero == [b \in 0 .. 1 |-> 0]
        r1 == emulate_instruction(c, Statics, extension, 0, zero)
        r2 == emulate_instruction([r1.chip8 EXCEPT !.PC = c.PC], r1.st,
                                  extension, 0, zero)
    IN  [first |-> r1.chip8, second |-> r2.chip8, oob |-> r1.oob \/ r2.oob]

\* main is about to execute a DXYN whose VX and VY the DXYN itself leaves
\* as they are (so that a second execution draws at the same place)
AtRepeatableDraw ==
    /\ pc = "batch"
    /\ undefined = 0
    /\ InRam(chip8.PC + 1)
    /\ LET t == TwiceFrom(chip8)
           opcode == t.first.inst
       IN  /\ IsDraw(opcode)
           /\ ~t.oob
           /\ t.first.V[(opcode \div 256) % 16] = chip8.V[(opcode \div 256) % 16]
           /\ t.first.V[(opcode \div 16) % 16] = chip8.V[(opcode \div 16) % 16]

\* C19: executing a DXYN twice in a row at the same place leaves the
\* framebuffer as it was before the first execution.
C19_DrawTwiceRestores ==
    AtRepeatableDraw => TwiceFrom(chip8).second.display = chip8.display

\* C19 witness: the program has drawn the glyph 0 twice at (62, 30) over
\* the glyph 8; the screen shows the clipped glyph 8 as before
C19_RestoredClipped ==
    /\ romFile = DrawRom(62, 30, 5, 0, 0, TRUE)
    /\ chip8.PC = DrawFirst(TRUE) + 4
    /\ chip8.inst = \hD015
    /\ chip8.display =
          [p \in 0 .. DisplaySize - 1 |->
              p \in {1982, 1983, 2046}]

\* C20 as stated: of two executions of a DXYN at the same place on a clear
\* screen, the second leaves no collision in VF.
C20_NoCollisionOnSecondDraw ==
    (AtRepeatableDraw /\ chip8.display = ZeroChip8.display) =>
       TwiceFrom(chip8).second.V[15] = 0

\* C20 amended: of two executions of a DXYN at the same place on a clear
\* screen, the first leaves VF = 0 and the second leaves VF = 1 exactly
\* when the sprite has a set bit inside the screen.
C20_CollisionOnSecondDraw ==
    (AtRepeatableDraw /\ chip8.display = ZeroChip8.display) =>
       LET t == TwiceFrom(chip8)
       IN  /\ t.first.V[15] = 0
           /\ t.second.V[15] =
                 IF \E p \in 0 .. DisplaySize - 1 :
                       SpriteBit(chip8, DrawAt(chip8, t.first.inst), p)
                 THEN 1 ELSE 0

\* C20 witness: the program has drawn the glyph 0 twice at (0, 0) on a clear
\* screen; the second draw erased it and reported the collision
C20_ErasedWithCollision ==
    /\ romFile = DrawRom(0, 0, 5, 0, 0, FALSE)
    /\ chip8.PC = DrawFirst(FALSE) + 4
    /\ chip8.inst = \hD015
    /\ chip8.V[15] = 1
    /\ chip8.display = ZeroChip8.display

-----------------------------------------------------------------------------
(* The opcodes one at a time (SpecOp).  The only action that counts i up is
   a call of emulate_instruction that main goes on from. *)

\* 8XY4, 8XY5, 8XY6, 8XY7, 8XYE
IsCarryOp(opcode) == opcode \div 4096 = 8 /\ opcode % 16 \in {4, 5, 6, 7, 14}

\* what the claim C21 gives for the word opcode on the registers V: the
\* 8-bit result v and the flag f, both from the operands before the step
CarryResult(opcode, V, ext) ==
    LET VX == V[(opcode \div 256) % 16]
        VY == V[(opcode \div 16) % 16]
        src == IF ext = "CHIP8" THEN VY ELSE VX
    IN  CASE opcode % 16 = 4 ->
               [v |-> (VX + VY) % 256, f |-> IF VX + VY > 255 THEN 1 ELSE 0]
          [] opcode % 16 = 5 ->
               [v |-> (256 + VX - VY) % 256, f |-> IF VX >= VY THEN 1 ELSE 0]
          [] opcode % 16 = 7 ->
               [v |-> (256 + VY - VX) % 256, f |-> IF VY >= VX THEN 1 ELSE 0]
          [] opcode % 16 = 6 ->
               [v |-> src \div 2, f |-> src % 2]
          [] opcode % 16 = 14 ->
               [v |-> (src * 2) % 256, f |-> src \div 128]

\* C21: after 8XY4, 8XY5, 8XY7, 8XY6 and 8XYE, for every X and Y, VF is the
\* carry / no-borrow / shifted-out bit of the operands before the step,
\* VX is their 8-bit result unless X = F (then the register holds the
\* flag), and no other register changes.
C21_FlagFromOperandsWrittenLast ==
    [][(pc = "batch" /\ i' = i + 1 /\ undefined' = 0
          /\ IsCarryOp(chip8'.inst)) =>
          LET e == CarryResult(chip8'.inst, chip8.V, extension)
              X == (chip8'.inst \div 256) % 16
          IN  /\ chip8'.V[15] = e.f
              /\ X # 15 => chip8'.V[X] = e.v
              /\ \A r \in 0 .. 14 : r # X => chip8'.V[r] = chip8.V[r]]_vars

\* C21 witness: 8F14 has added V1 = 1 to VF = 255; VF holds the carry 1,
\* not the sum 0
C21_CarryIntoFlagRegister ==
    /\ romFile = OpRom(\h8F14)
    /\ chip8.inst = \h8F14
    /\ chip8.V[1] = 1
    /\ chip8.V[15] = 1

\* 8XY6, 8XYE
IsShift(opcode) == opcode \div 4096 = 8 /\ opcode % 16 \in {6, 14}

C23_ExtendedShiftGivesOne ==
    [][(pc = "batch" /\ i' = i + 1 /\ chip8'.inst = \h8016
          /\ extension = "SUPERCHIP"
          /\ chip8.V[0] = 0 /\ chip8.V[1] = 3) =>
          (chip8'.V[0] = 1 /\ chip8'.V[15] = 0)]_vars

\* C23 amended: 8016 with VX = 0 and VY = 3 under the extended
\* architecture gives VX = 0 and VF = 0 and leaves VY = 3.
C23_ExtendedShiftGivesZero ==
    [][(pc = "batch" /\ i' = i + 1 /\ chip8'.inst = \h8016
          /\ extension = "SUPERCHIP"
          /\ chip8.V[0] = 0 /\ chip8.V[1] = 3) =>
          (chip8'.V[0] = 0 /\ chip8'.V[15] = 0 /\ chip8'.V[1] = 3)]_vars

\* C23 witness: under SUPERCHIP 8016 has run with V1 = 3 and left V0 = 0
\* and VF = 0 (of the values tried, only V0 = 0 shifts to 0 with no bit out)
C23_ExtendedShiftOfZero ==
    /\ extension = "SUPERCHIP"
    /\ romFile = OpRom(\h8016)
    /\ chip8.inst = \h8016
    /\ chip8.V[1] = 3
    /\ chip8.V[0] = 0
    /\ chip8.V[15] = 0

\* C24: BNNN sets PC to V0 + NNN under CHIP8 and to VX + XNN otherwise
\* (X the bits 8-11 of the word, XNN the whole of NNN).
C24_JumpOffsetByExtension ==
    [][(pc = "batch" /\ i' = i + 1 /\ undefined' = 0
          /\ chip8'.inst \div 4096 = 11) =>
          chip8'.PC =
             (IF extension = "CHIP8" THEN chip8.V[0]
              ELSE chip8.V[(chip8'.inst \div 256) % 16])
             + (chip8'.inst % 4096)]_vars

\* FX55, FX65
IsStore(opcode) == opcode \div 4096 = 15 /\ opcode % 256 = \h55

IsLoad(opcode) == opcode \div 4096 = 15 /\ opcode % 256 = \h65

\* C25: FX55 copies V0..VX to RAM[I0 .. I0+X] (the rest of the RAM and the
\* registers stay), FX65 copies RAM[I0 .. I0+X] to V0..VX (the registers
\* above X and the RAM stay), I0 being I before the step; afterwards
\* I = I0 + X + 1 under CHIP8 and I = I0 otherwise; the bytes moved do not
\* depend on the extension.  Stated of blocks that lie inside the RAM.
C25_BlockTransfer ==
    [][(pc = "batch" /\ i' = i + 1 /\ undefined' = 0
          /\ (IsStore(chip8'.inst) \/ IsLoad(chip8'.inst))) =>
          LET X == (chip8'.inst \div 256) % 16
              I0 == chip8.I
          IN  /\ chip8'.I = IF extension = "CHIP8" THEN I0 + X + 1 ELSE I0
              /\ IsStore(chip8'.inst) =>
                    /\ \A a \in 0 .. RamSize - 1 :
                          chip8'.ram[a + 1] =
                             IF a >= I0 /\ a <= I0 + X THEN chip8.V[a - I0]
                             ELSE chip8.ram[a + 1]
                    /\ chip8'.V = chip8.V
              /\ IsLoad(chip8'.inst) =>
                    /\ \A r \in 0 .. 15 :
                          chip8'.V[r] =
                             IF r <= X THEN chip8.ram[I0 + r + 1]
                             ELSE chip8.V[r]
                    /\ chip8'.ram = chip8.ram]_vars

\* C25 witness: under CHIP8, FF55 has stored V0..VF (V5 = 1, VF = 255, the
\* others 17 times their number) over the font from I0 = 0 and left I = 16
C25_StoredSixteen ==
    /\ extension = "CHIP8"
    /\ chip8.inst = \hFF55
    /\ chip8.I = 16
    /\ undefined = 0
    /\ \A r \in 0 .. 14 : chip8.ram[r + 1] = IF r = 5 THEN 1 ELSE 17 * r
    /\ chip8.ram[16] = 255

\* the extension that is not ext
OtherExtension(ext) == IF ext = "CHIP8" THEN "SUPERCHIP" ELSE "CHIP8"

\* 8XY1, 8XY2, 8XY3
IsLogicOp(opcode) == opcode \div 4096 = 8 /\ opcode % 16 \in {1, 2, 3}

\* the opcodes the claim C26 lets depend on the extension
MayDependOnExtension(opcode) ==
    \/ IsLogicOp(opcode)
    \/ IsShift(opcode)
    \/ opcode \div 4096 = 11
    \/ IsStore(opcode)
    \/ IsLoad(opcode)

\* C26: the step of the same machine, statics, word and keypad under the
\* other extension (with the same rand() and the same bytes outside the
\* arrays) ends in the same machine and statics, for every opcode but
\* 8XY1/2/3, 8XY6/E, BNNN and FX55/65; for 8XY1/2/3 the two machines differ
\* in VF at most, which is 0 under CHIP8 and, when VF is not the
\* destination, the VF of before under the other extension; and no step
\* changes the extension.
C26_ExtensionIsolation ==
    [][/\ extension' = extension
       /\ (pc = "batch" /\ i' = i + 1) =>
             \E rnd \in RandBytes, u \in [0 .. 1 -> OobBytes] :
                LET r == emulate_instruction(chip8, Statics,
                                             OtherExtension(extension), rnd, u)
                    base == IF extension = "CHIP8" THEN chip8' ELSE r.chip8
                    super == IF extension = "CHIP8" THEN r.chip8 ELSE chip8'
                    X == (chip8'.inst \div 256) % 16
                IN  /\ ~MayDependOnExtension(chip8'.inst) =>
                          /\ r.chip8 = chip8'
                          /\ r.st.key = key'
                          /\ r.st.any_key_pressed = any_key_pressed'
                    /\ IsLogicOp(chip8'.inst) =>
                          /\ [base EXCEPT !.V[15] = 0] =
                                [super EXCEPT !.V[15] = 0]
                          /\ base.V[15] = 0
                          /\ X # 15 => super.V[15] = chip8.V[15]]_vars

\* C26 witness: under SUPERCHIP 8011 has ORed V1 = 1 into V0 = 128 and VF
\* is still 255
C26_FlagKeptByLogicOp ==
    /\ extension = "SUPERCHIP"
    /\ chip8.inst = \h8011
    /\ chip8.V[0] = 129
    /\ chip8.V[1] = 1
    /\ chip8.V[15] = 255

\* EX9E, EXA1
IsKeySkip(opcode) == opcode \div 4096 = 14 /\ opcode % 256 \in {\h9E, \hA1}

\* C30: EX9E and EXA1 index the keypad with 0 .. 15 only, whatever VX is;
\* EX9E adds 2 to PC exactly when key VX is pressed, EXA1 exactly when it
\* is not, and nothing else changes.
C30_KeyLookupInsideKeypad ==
    [][(pc = "batch" /\ i' = i + 1 /\ IsKeySkip(chip8'.inst)) =>
          LET VX == chip8.V[(chip8'.inst \div 256) % 16]
              fetched == Fetch(chip8, [b \in 0 .. 1 |-> 0])
          IN  /\ VX \in 0 .. 15
              /\ undefined' = 0
              /\ chip8' =
                    IF chip8.keypad[VX] = (chip8'.inst % 256 = \h9E)
                    THEN [fetched EXCEPT !.PC = @ + 2]
                    ELSE fetched]_vars

-----------------------------------------------------------------------------
(* End to end *)

\* C27: once 00E0 1200 is loaded, in every state the framebuffer is all
\* false, PC is at most 0x202, the stack is empty and no index has left
\* its array; and the machine steps for ever: again and again main starts
\* a batch and reaches its end (BatchSize calls of emulate_instruction lie
\* between the two).
C27_ClearLoopForever ==
    /\ []((romFile = ClearLoopRom /\ pc # "start") =>
            /\ initResult = "ok"
            /\ chip8.display = ZeroChip8.display
            /\ chip8.PC <= entryPoint + 2
            /\ chip8.stackPtr = 0
            /\ undefined = 0
            /\ access \subseteq 0 .. RamSize - 1
            /\ pc \in {"poll", "batch", "flush", "timers"})
    /\ []<>(romFile # ClearLoopRom \/ (pc = "batch" /\ i = 0))
    /\ []<>(romFile # ClearLoopRom \/ (pc = "flush" /\ i = BatchSize))

\* C27 witness: the loop has executed its jump and is about to clear the
\* screen again, in the middle of a batch
C27_LoopedBack ==
    /\ romFile = ClearLoopRom
    /\ chip8.inst = \h1200
    /\ chip8.PC = entryPoint
    /\ pc = "batch"
    /\ i = 4

\* the framebuffer that shows the glyph 5 (the bytes F0 80 F0 10 F0 of the
\* claim C28) in rows 0 .. 4 and columns x0 .. x0 + 7, and nothing else
GlyphFiveAt(x0) ==
    LET bytes == << \hF0, \h80, \hF0, \h10, \hF0 >>
    IN  [p \in 0 .. DisplaySize - 1 |->
            LET row == p \div windowWidth
                col == p % windowWidth
            IN  /\ row < 5
                /\ col >= x0
                /\ col < x0 + 8
                /\ (bytes[row + 1] \div 2 ^ (7 - (col - x0))) % 2 = 1]

\* 6A05 FA29 DAB5 have been executed (the program is at or behind its park)
GlyphDrawn ==
    /\ romFile = GlyphRom
    /\ chip8.PC = GlyphPark
    /\ chip8.inst \in {\hDAB5, \h1206}

\* C28 as stated: after 6A05 FA29 DAB5 the glyph 5 stands at (0, 0), in
\* columns 0 .. 7, every other pixel is false, I = 25 and VF = 0.
C28_GlyphAtOrigin ==
    GlyphDrawn =>
       /\ chip8.display = GlyphFiveAt(0)
       /\ chip8.I = 25
       /\ chip8.V[15] = 0

\* C28 amended: after 6A05 FA29 DAB5 the glyph 5 stands at (VA, VB) =
\* (5, 0), in columns 5 .. 12, every other pixel is false, I = 25 and
\* VF = 0.
C28_GlyphAtColumnFive ==
    GlyphDrawn =>
       /\ chip8.display = GlyphFiveAt(5)
       /\ chip8.I = 25
       /\ chip8.V[15] = 0
       /\ chip8.V[10] = 5
       /\ chip8.V[11] = 0

\* C28 witness: DAB5 is the instruction just executed; the pixel (5, 0) is
\* lit and the pixel (0, 0) is not
C28_GlyphShown ==
    /\ GlyphDrawn
    /\ chip8.inst = \hDAB5
    /\ chip8.display[5]
    /\ ~chip8.display[0]
    /\ chip8.draw

\* C29: at the flush point of main the dirty flag is set whenever the
\* framebuffer differs from the image last presented.
C29_ChangesReachScreen ==
    (pc = "flush" /\ undefined = 0 /\ chip8.display # screen) => chip8.draw

\* a key was pressed and afterwards released during the current wait
Tapped == \E k \in 0 .. 15 : waitTaps[k] = "tapped"

\* C31: when the running machine stands at FX0A and a key was pressed and
\* afterwards released, each by an event handle_input handled during the
\* wait, FX0A eventually completes and PC moves past it (or the machine
\* leaves RUNNING or is loaded again, which ends the claim's premise)
C31_TapEndsWait ==
    (AtKeyWait(chip8) /\ Tapped) ~> (~AtKeyWait(chip8) \/ ~Tapped)

====
